---- MODULE Spec2Model ----
(***************************************************************************)
(* acquireQ: the lease/offer state machine of server/app/queue_manager.py. *)
(* The database tables (resources, users, queue_items), the in-process     *)
(* timer registry offer_tasks and the asyncio timer tasks are the state;   *)
(* every QueueManager coroutine is one action, run to completion with the  *)
(* _process_queue call and the broadcasts it makes.                        *)
(* SpecInterleaved lets the coroutines run between each other's awaits.    *)
(***************************************************************************)
EXTENDS Integers, Sequences, FiniteSets, TLC

\* ------------------------------------------------------------------ bounds
Resources == {"r1", "r2"}   \* identifiers create_resource may hand out
MaxUsers == 3               \* rows the users table may hold
MaxTimeout == 1             \* largest timeoutSeconds a resource is created with
MaxTime == 2                \* the clock stops here
MaxOrderKey == 3            \* no order key above this is assigned
MaxPending == 2             \* coroutines suspended at the same time

\* Python's None for a user id or a task handle, and for a datetime column.
None == 0
NoTime == -1

VARIABLES
    resources,    \* table resources: id -> row (only the created ones)
    users,        \* table users: users[id] is the row's resource_id
    queue_items,  \* table queue_items: set of rows
    offer_tasks,  \* QueueManager.offer_tasks: resource id -> task id
    tasks,        \* asyncio tasks sleeping in _handle_timeout
    now,          \* datetime.utcnow(), in seconds
    last,         \* the last call that did not fail, its result and broadcasts
    arrival,      \* history: per resource, the queued users in join order
    noShow,       \* history: per resource, the queued users who timed out
    assigned,     \* history: per resource, the greatest order key ever given
    pending       \* coroutines suspended before or inside _process_queue

vars == <<resources, users, queue_items, offer_tasks, tasks, now, last,
          arrival, noShow, assigned, pending>>

\* ---------------------------------------------------------------- queries
\* select(QueueItem).where(QueueItem.resource_id == resource_id)
QueueOf(items, r) == {i \in items : i.resource_id = r}

\* Mutant of OrderBy: .order_by(QueueItem.order.desc())
RECURSIVE OrderByDesc(_)
OrderByDesc(S) ==
    IF S = {} THEN <<>>
    ELSE LET m == CHOOSE i \in S : \A j \in S : j.order <= i.order
         IN <<m>> \o OrderByDesc(S \ {m})

\* .order_by(QueueItem.order)
RECURSIVE OrderBy(_)
OrderBy(S) ==
    IF S = {} THEN <<>>
    ELSE LET m == CHOOSE i \in S : \A j \in S : i.order <= j.order
         IN <<m>> \o OrderBy(S \ {m})

\* select(func.max(QueueItem.order)) ... result.scalar() or 0
MaxOrderOr0(S) ==
    IF S = {} THEN 0
    ELSE LET m == CHOOSE i \in S : \A j \in S : j.order <= i.order IN m.order

\* The state one coroutine works on: the tables, the registry, the sleeping
\* tasks, and the snapshots it has emitted so far.
State ==
    [resources |-> resources, users |-> users, queue_items |-> queue_items,
     offer_tasks |-> offer_tasks, tasks |-> tasks, pub |-> <<>>]

\* ----------------------------------------------------------- broadcasting
get_resource_state(st, r) ==
    LET resource == st.resources[r]
        sorted_items == OrderBy(QueueOf(st.queue_items, r))
        h == resource.current_holder_id
    IN [resourceId |-> r,
        holder |-> IF h # None /\ h \in DOMAIN st.users /\ st.users[h] = r
                   THEN h ELSE None,
        queue |-> [k \in 1..Len(sorted_items) |-> sorted_items[k].user_id],
        offerExpiresAt |-> resource.active_offer_expires_at]

broadcast_update(st, r) ==
    IF r \in DOMAIN st.resources
    THEN [st EXCEPT !.pub = Append(@, get_resource_state(st, r))]
    ELSE st

\* ------------------------------------------------------------ timer tasks
\* A call that ends in an exception: resource is None where the code reads
\* one of its attributes (AttributeError). st is what was committed before.
Raised(st) == [st |-> st, ok |-> FALSE, id |-> None, raised |-> TRUE]

\* A fresh task handle: the smallest one no sleeping task and no registry
\* entry carries.
NewTaskId(st) ==
    LET used == {t.id : t \in st.tasks} \cup {st.offer_tasks[r] : r \in Resources}
    IN CHOOSE n \in 1..(Cardinality(used) + 1) :
           n \notin used /\ \A m \in 1..(n - 1) : m \in used

\* Mutant of CancelOfferTask: the cancel() call left out.
CancelOfferTaskSkipped(st, r) == st

\* if resource_id in self.offer_tasks: self.offer_tasks[resource_id].cancel()
\* A sleeping task is cancelled at its sleep; a finished one is unaffected.
CancelOfferTask(st, r) ==
    [st EXCEPT !.tasks = {t \in @ : t.id # st.offer_tasks[r]}]

\* asyncio.create_task(self._handle_timeout(resource_id, duration))
SleepingTask(id, r, duration) ==
    [id |-> id, resource_id |-> r, wake |-> now + duration]

\* self.offer_tasks[resource_id] = asyncio.create_task(...)
ScheduleTimeout(st, r, duration) ==
    LET id == NewTaskId(st)
    IN [st EXCEPT !.tasks = @ \cup {SleepingTask(id, r, duration)},
                  !.offer_tasks[r] = id]

\* --------------------------------------------------------- _process_queue
\* Mutant of AlreadyHeld: the holder test left out.
AlreadyHeldIgnored(resource) == FALSE

\* if resource.current_holder_id: return
AlreadyHeld(resource) == resource.current_holder_id # None

\* self is the handle of the task running the call (None for a request
\* handler). When the registry entry cancelled at line 134 is the running
\* task itself, the CancelledError is delivered at its next suspension, the
\* close of the session block, and the broadcast of line 142 is not reached.
OfferNext(st, r, self) ==
    LET resource == st.resources[r]
        items == OrderBy(QueueOf(st.queue_items, r))
    IN IF items = <<>> THEN st
       ELSE LET expires_at == now + resource.timeout_seconds
                st1 == [st EXCEPT
                          !.resources[r].active_offer_expires_at = expires_at]
                st2 == CancelOfferTask(st1, r)
                st3 == ScheduleTimeout(st2, r, resource.timeout_seconds)
            IN IF self # None /\ st.offer_tasks[r] = self
               THEN st3
               ELSE broadcast_update(st3, r)

process_queue(st, r, self) ==
    IF AlreadyHeld(st.resources[r]) THEN st ELSE OfferNext(st, r, self)

\* ------------------------------------------------------------- join_queue
\* Mutant of AlreadyQueued: the existing-item test left out.
AlreadyQueuedIgnored(st, user) == FALSE

\* existing_item = select(QueueItem).where(QueueItem.user_id == user.id)
AlreadyQueued(st, user) == \E i \in st.queue_items : i.user_id = user

\* order=max_order + 1
\* Mutant of NextOrder: order=max_order, without the + 1.
NextOrderSame(max_order) == max_order

NextOrder(max_order) == max_order + 1

\* Mutant of HasActiveOffer: every join advances the queue.
HasActiveOfferIgnored(resource) == FALSE

\* has_active_offer = resource.active_offer_expires_at is not None
HasActiveOffer(resource) == resource.active_offer_expires_at # NoTime

join_queue(st, r, user_id) ==
    LET known == user_id # None /\ user_id \in DOMAIN st.users
        user == IF known THEN user_id ELSE Len(st.users) + 1
        st1 == IF known THEN st ELSE [st EXCEPT !.users = Append(@, r)]
    IN IF AlreadyQueued(st1, user)
       THEN [st |-> st, ok |-> TRUE, id |-> user,   \* returns uncommitted
             raised |-> FALSE]
       ELSE LET max_order == MaxOrderOr0(QueueOf(st1.queue_items, r))
                queue_item == [resource_id |-> r, user_id |-> user,
                               order |-> NextOrder(max_order)]
                st2 == [st1 EXCEPT !.queue_items = @ \cup {queue_item}]
                has_active_offer == HasActiveOffer(st2.resources[r])
                st3 == broadcast_update(st2, r)
                st4 == IF ~has_active_offer
                       THEN process_queue(st3, r, None) ELSE st3
            IN IF r \notin DOMAIN st2.resources
               THEN Raised(st2)   \* line 85, after the commit of line 81
               ELSE [st |-> st4, ok |-> TRUE, id |-> user, raised |-> FALSE]

\* ------------------------------------------------------- release_resource
\* if not resource or resource.current_holder_id != user_id: return False
NotHolder(st, r, user_id) ==
    r \notin DOMAIN st.resources
    \/ st.resources[r].current_holder_id # user_id

\* Mutant of release_resource: the _process_queue call of line 103 left out.
release_resource_NoAdvance(st, r, user_id) ==
    IF NotHolder(st, r, user_id)
    THEN [st |-> st, ok |-> FALSE, id |-> None,
             raised |-> FALSE]
    ELSE LET st1 == [st EXCEPT !.resources[r].current_holder_id = None]
         IN [st |-> broadcast_update(st1, r), ok |-> TRUE, id |-> None,
             raised |-> FALSE]

release_resource(st, r, user_id) ==
    IF NotHolder(st, r, user_id)
    THEN [st |-> st, ok |-> FALSE, id |-> None,
             raised |-> FALSE]
    ELSE LET st1 == [st EXCEPT !.resources[r].current_holder_id = None]
             st2 == broadcast_update(st1, r)
             st3 == process_queue(st2, r, None)
         IN [st |-> st3, ok |-> TRUE, id |-> None,
             raised |-> FALSE]

\* ---------------------------------------------- accept_offer, reject_offer
\* if not first_item or first_item.user_id != user_id: return False
NotFirst(items, user_id) == items = <<>> \/ items[1].user_id # user_id

\* Mutant of NoOffer: the active-offer test left out.
NoOfferIgnored(resource) == FALSE

\* if not resource.active_offer_expires_at: return False
NoOffer(resource) == resource.active_offer_expires_at = NoTime

accept_offer(st, r, user_id) ==
    LET resource == st.resources[r]
        items == OrderBy(QueueOf(st.queue_items, r))
    IN IF NotFirst(items, user_id)
       THEN [st |-> st, ok |-> FALSE, id |-> None,
             raised |-> FALSE]
       ELSE IF r \notin DOMAIN st.resources
       THEN Raised(st)
       ELSE IF NoOffer(resource)
       THEN [st |-> st, ok |-> FALSE, id |-> None,
             raised |-> FALSE]
       ELSE LET st1 == [st EXCEPT
                          !.resources[r].current_holder_id = user_id,
                          !.resources[r].active_offer_expires_at = NoTime,
                          !.queue_items = @ \ {items[1]}]
                st2 == CancelOfferTask(st1, r)
                st3 == broadcast_update(st2, r)
            IN [st |-> st3, ok |-> TRUE, id |-> None,
             raised |-> FALSE]

reject_offer(st, r, user_id) ==
    LET resource == st.resources[r]
        items == OrderBy(QueueOf(st.queue_items, r))
    IN IF NotFirst(items, user_id)
       THEN [st |-> st, ok |-> FALSE, id |-> None,
             raised |-> FALSE]
       ELSE IF r \notin DOMAIN st.resources
       THEN Raised(st)
       ELSE IF NoOffer(resource)
       THEN [st |-> st, ok |-> FALSE, id |-> None,
             raised |-> FALSE]
       ELSE LET st1 == [st EXCEPT
                          !.queue_items = @ \ {items[1]},
                          !.resources[r].active_offer_expires_at = NoTime]
                st2 == CancelOfferTask(st1, r)
                st3 == broadcast_update(st2, r)
                st4 == process_queue(st3, r, None)
            IN [st |-> st4, ok |-> TRUE, id |-> None,
             raised |-> FALSE]

\* ------------------------------------------------------------ leave_queue
\* Mutant of leave_queue: the _process_queue call of line 282 left out.
leave_queue_NoAdvance(st, r, user_id) ==
    LET found == {i \in QueueOf(st.queue_items, r) : i.user_id = user_id}
    IN IF found = {}
       THEN [st |-> st, ok |-> FALSE, id |-> None,
             raised |-> FALSE]
       ELSE IF r \notin DOMAIN st.resources
       THEN Raised(st)
       ELSE LET queue_item == CHOOSE i \in found : TRUE
                resource == st.resources[r]
                items == OrderBy(QueueOf(st.queue_items, r))
                was_offered == resource.active_offer_expires_at # NoTime
                               /\ queue_item.order = items[1].order
                st1 == [st EXCEPT !.queue_items = @ \ {queue_item}]
                st2 == IF was_offered
                       THEN CancelOfferTask(
                              [st1 EXCEPT
                                 !.resources[r].active_offer_expires_at = NoTime],
                              r)
                       ELSE st1
            IN [st |-> broadcast_update(st2, r), ok |-> TRUE, id |-> None,
             raised |-> FALSE]

leave_queue(st, r, user_id) ==
    LET found == {i \in QueueOf(st.queue_items, r) : i.user_id = user_id}
    IN IF found = {}
       THEN [st |-> st, ok |-> FALSE, id |-> None,
             raised |-> FALSE]
       ELSE IF r \notin DOMAIN st.resources
       THEN Raised(st)
       ELSE LET queue_item == CHOOSE i \in found : TRUE
                resource == st.resources[r]
                items == OrderBy(QueueOf(st.queue_items, r))
                was_offered == resource.active_offer_expires_at # NoTime
                               /\ queue_item.order = items[1].order
                st1 == [st EXCEPT !.queue_items = @ \ {queue_item}]
                st2 == IF was_offered
                       THEN CancelOfferTask(
                              [st1 EXCEPT
                                 !.resources[r].active_offer_expires_at = NoTime],
                              r)
                       ELSE st1
                st3 == broadcast_update(st2, r)
                st4 == IF was_offered
                       THEN process_queue(st3, r, None) ELSE st3
            IN [st |-> st4, ok |-> TRUE, id |-> None,
             raised |-> FALSE]

\* -------------------------------------------------------- _handle_timeout
\* Mutant of RequeueAtEnd: the timed-out item deleted, as reject_offer does.
RequeueDropped(items, timed_out_item, max_order) == items \ {timed_out_item}

\* timed_out_item.order = max_order + 1
RequeueAtEnd(items, timed_out_item, max_order) ==
    (items \ {timed_out_item})
        \cup {[timed_out_item EXCEPT !.order = max_order + 1]}

\* The body after asyncio.sleep(duration), run by the task t.
handle_timeout(st, t) ==
    LET r == t.resource_id
        st0 == [st EXCEPT !.tasks = @ \ {t}]
    IN IF r \notin DOMAIN st.resources
          \/ st.resources[r].active_offer_expires_at = NoTime
       THEN st0
       ELSE LET items == OrderBy(QueueOf(st.queue_items, r))
                st1 == IF items # <<>>
                       THEN LET timed_out_item == items[1]
                                max_order == items[Len(items)].order
                            IN [st0 EXCEPT
                                  !.queue_items =
                                      RequeueAtEnd(@, timed_out_item, max_order),
                                  !.resources[r].active_offer_expires_at = NoTime]
                       ELSE st0
                st2 == broadcast_update(st1, r)
            IN process_queue(st2, r, t.id)

\* --------------------------------------------------------- restore_timers
\* select(Resource).where(Resource.active_offer_expires_at > datetime.utcnow())
RestoreSelected(st) ==
    {r \in DOMAIN st.resources : st.resources[r].active_offer_expires_at > now}

\* A new process: the registry is empty and no task of the old process lives.
\* Both utcnow() readings are taken at the same second.
RECURSIVE restore_loop(_, _)
restore_loop(st, todo) ==
    IF todo = {} THEN st
    ELSE LET r == CHOOSE x \in todo : TRUE
             remaining == st.resources[r].active_offer_expires_at - now
             st1 == IF remaining > 0
                    THEN ScheduleTimeout(st, r, remaining)
                    ELSE [st EXCEPT !.tasks =
                            @ \cup {SleepingTask(NewTaskId(st), r, 0)}]
         IN restore_loop(st1, todo \ {r})

restore_timers(st) ==
    restore_loop([st EXCEPT !.tasks = {},
                            !.offer_tasks = [r \in Resources |-> None]],
                 RestoreSelected(st))

\* ---------------------------------------------------------------- actions
Result(op, r, user_id, out) ==
    [op |-> op, resource_id |-> r, user_id |-> user_id,
     ok |-> out.ok, id |-> out.id, pub |-> out.st.pub,
     raised |-> out.raised]

\* The users queued for r, head first.
QueueUsers(items, r) ==
    LET sorted_items == OrderBy(QueueOf(items, r))
    IN [k \in 1..Len(sorted_items) |-> sorted_items[k].user_id]

Queued(items, r) == {i.user_id : i \in QueueOf(items, r)}

\* History of a step to the tables st: who is still queued keeps its place
\* in the join order, who is new goes last, and expired (a set of at most
\* one user) are the users whose offer the step timed out.
RECURSIVE SeqOf(_)
SeqOf(S) == IF S = {} THEN <<>>
            ELSE LET x == CHOOSE y \in S : TRUE IN <<x>> \o SeqOf(S \ {x})

Remember(st, expired) ==
    /\ arrival' = [r \in Resources |->
          LET Stays(u) == u \in Queued(st.queue_items, r)
          IN SelectSeq(arrival[r], Stays)
             \o SeqOf(Queued(st.queue_items, r) \ Queued(queue_items, r))]
    /\ noShow' = [r \in Resources |->
          (noShow[r] \cup expired[r]) \cap Queued(st.queue_items, r)]
    /\ assigned' = [r \in Resources |->
          LET top == MaxOrderOr0(QueueOf(st.queue_items, r))
          IN IF top > assigned[r] THEN top ELSE assigned[r]]

NoneExpired == [r \in Resources |-> {}]

Store(st) ==
    /\ resources' = st.resources
    /\ users' = st.users
    /\ queue_items' = st.queue_items
    /\ offer_tasks' = st.offer_tasks
    /\ tasks' = st.tasks

\* The model's bounds on the users table and on the order keys.
WithinBounds(st) ==
    /\ Len(st.users) <= MaxUsers
    /\ \A i \in st.queue_items : i.order <= MaxOrderKey

\* main.create_resource
CreateResource(r, timeoutSeconds) ==
    /\ r \notin DOMAIN resources
    /\ resources' = resources @@
           (r :> [timeout_seconds |-> timeoutSeconds,
                  current_holder_id |-> None,
                  active_offer_expires_at |-> NoTime])
    /\ last' = [op |-> "create", resource_id |-> r, user_id |-> None,
                ok |-> TRUE, id |-> None, pub |-> <<>>,
                raised |-> FALSE]
    /\ UNCHANGED <<users, queue_items, offer_tasks, tasks, now, arrival, noShow,
                   assigned, pending>>

\* A call that returns False has changed nothing and leaves no record.
Call(op, r, user_id, out) ==
    IF out.ok \/ out.raised
    THEN /\ Store(out.st)
         /\ Remember(out.st, NoneExpired)
         /\ last' = Result(op, r, user_id, out)
    ELSE UNCHANGED <<resources, users, queue_items, offer_tasks, tasks, last,
                     arrival, noShow, assigned>>

JoinQueue(r, user_id) ==
    /\ r \in DOMAIN resources
    /\ LET out == join_queue(State, r, user_id)
       IN WithinBounds(out.st) /\ Call("join", r, user_id, out)
    /\ UNCHANGED <<now, pending>>

ReleaseResource(r, user_id) ==
    /\ r \in DOMAIN resources
    /\ Call("release", r, user_id, release_resource(State, r, user_id))
    /\ UNCHANGED <<now, pending>>

AcceptOffer(r, user_id) ==
    /\ r \in DOMAIN resources
    /\ Call("accept", r, user_id, accept_offer(State, r, user_id))
    /\ UNCHANGED <<now, pending>>

RejectOffer(r, user_id) ==
    /\ r \in DOMAIN resources
    /\ Call("reject", r, user_id, reject_offer(State, r, user_id))
    /\ UNCHANGED <<now, pending>>

LeaveQueue(r, user_id) ==
    /\ r \in DOMAIN resources
    /\ Call("leave", r, user_id, leave_queue(State, r, user_id))
    /\ UNCHANGED <<now, pending>>

\* The users whose offer the task t times out when it wakes now.
TimedOut(t) ==
    [r \in Resources |->
        IF r = t.resource_id /\ r \in DOMAIN resources
           /\ resources[r].active_offer_expires_at # NoTime
           /\ QueueOf(queue_items, r) # {}
        THEN {QueueUsers(queue_items, r)[1]} ELSE {}]

\* asyncio wakes a sleeping task no earlier than its delay.
HandleTimeout(t) ==
    /\ t \in tasks
    /\ t.wake <= now
    /\ LET st == handle_timeout(State, t)
       IN /\ WithinBounds(st)
          /\ Store(st)
          /\ Remember(st, TimedOut(t))
          /\ last' = [op |-> "timeout", resource_id |-> t.resource_id,
                      user_id |-> None, ok |-> TRUE, id |-> t.id,
                      pub |-> st.pub, raised |-> FALSE]
    /\ UNCHANGED <<now, pending>>

\* main.startup_event of a new process over the same database.
Restart ==
    /\ Store(restore_timers(State))
    /\ last' = [op |-> "restart", resource_id |-> "", user_id |-> None,
                ok |-> TRUE, id |-> None, pub |-> <<>>,
                raised |-> FALSE]
    /\ UNCHANGED <<now, arrival, noShow, assigned, pending>>

Tick ==
    /\ now < MaxTime
    /\ now' = now + 1
    /\ last' = [op |-> "tick", resource_id |-> "", user_id |-> None,
                ok |-> TRUE, id |-> None, pub |-> <<>>,
                raised |-> FALSE]
    /\ UNCHANGED <<resources, users, queue_items, offer_tasks, tasks,
                   arrival, noShow, assigned, pending>>

Init ==
    /\ resources = <<>>
    /\ users = <<>>
    /\ queue_items = {}
    /\ offer_tasks = [r \in Resources |-> None]
    /\ tasks = {}
    /\ now = 0
    /\ last = [op |-> "init", resource_id |-> "", user_id |-> None,
               ok |-> TRUE, id |-> None, pub |-> <<>>,
                raised |-> FALSE]
    /\ arrival = [r \in Resources |-> <<>>]
    /\ noShow = [r \in Resources |-> {}]
    /\ assigned = [r \in Resources |-> 0]
    /\ pending = {}

\* One resource is created; the other identifier stays unknown to the
\* database.
Next ==
    \/ \E d \in 1..MaxTimeout : CreateResource("r1", d)
    \/ \E r \in Resources, u \in 0..MaxUsers : JoinQueue(r, u)
    \/ \E r \in Resources, u \in 0..MaxUsers : ReleaseResource(r, u)
    \/ \E r \in Resources, u \in 0..MaxUsers : AcceptOffer(r, u)
    \/ \E r \in Resources, u \in 0..MaxUsers : RejectOffer(r, u)
    \/ \E r \in Resources, u \in 0..MaxUsers : LeaveQueue(r, u)
    \/ \E t \in tasks : HandleTimeout(t)
    \/ Restart
    \/ Tick

Spec == Init /\ [][Next]_vars

\* Both resources are created, and claimants join and accept; the clock
\* stands still, so that no offer expires and the process keeps running.
NextTwo ==
    \/ \E r \in Resources, d \in 1..MaxTimeout : CreateResource(r, d)
    \/ \E r \in Resources, u \in 0..MaxUsers : JoinQueue(r, u)
    \/ \E r \in Resources, u \in 0..MaxUsers : AcceptOffer(r, u)

SpecTwo == Init /\ [][NextTwo]_vars

\* The calls of the socket handlers with an identifier no row of resources
\* has. The engine either enforces the foreign keys of users and queue_items
\* (the insert fails and is rolled back) or does not (the rows are
\* committed); join_queue ends in an exception in both cases.
JoinUnknown(r, user_id) ==
    /\ r \notin DOMAIN resources
    /\ \E enforced \in BOOLEAN :
          LET out == join_queue(State, r, user_id)
              res == IF enforced /\ out.raised THEN Raised(State) ELSE out
          IN WithinBounds(res.st) /\ Call("join", r, user_id, res)
    /\ UNCHANGED <<now, pending>>

ReleaseUnknown(r, user_id) ==
    /\ r \notin DOMAIN resources
    /\ Call("release", r, user_id, release_resource(State, r, user_id))
    /\ UNCHANGED <<now, pending>>

AcceptUnknown(r, user_id) ==
    /\ r \notin DOMAIN resources
    /\ Call("accept", r, user_id, accept_offer(State, r, user_id))
    /\ UNCHANGED <<now, pending>>

RejectUnknown(r, user_id) ==
    /\ r \notin DOMAIN resources
    /\ Call("reject", r, user_id, reject_offer(State, r, user_id))
    /\ UNCHANGED <<now, pending>>

LeaveUnknown(r, user_id) ==
    /\ r \notin DOMAIN resources
    /\ Call("leave", r, user_id, leave_queue(State, r, user_id))
    /\ UNCHANGED <<now, pending>>

\* The resource of Next is created, and calls name the identifier that is
\* never created as well.
NextUnknown ==
    \/ Next
    \/ \E u \in 0..MaxUsers : JoinUnknown("r2", u)
    \/ \E u \in 0..MaxUsers : ReleaseUnknown("r2", u)
    \/ \E u \in 0..MaxUsers : AcceptUnknown("r2", u)
    \/ \E u \in 0..MaxUsers : RejectUnknown("r2", u)
    \/ \E u \in 0..MaxUsers : LeaveUnknown("r2", u)

SpecUnknown == Init /\ [][NextUnknown]_vars

\* ------------------------------------------------ interleaved coroutines
\* Every await hands control to the event loop, and python-socketio runs
\* each event handler and asyncio each timer as a task of its own, so a call
\* runs between the awaits of another. A coroutine on its way through
\* _process_queue is kept at one of two places: "called", before the read of
\* the holder (line 108), and "read", after it and before the query of the
\* head and the commit of the deadline (lines 114-128). self is the handle
\* of the task that runs it (None for a request handler), by the claimant
\* of the call.
Coroutine(r, self, by, stage) ==
    [resource_id |-> r, self |-> self, by |-> by, stage |-> stage]

\* join_queue up to the broadcast of line 87; advance says whether line 90
\* calls _process_queue.
join_queue_committed(st, r, user_id) ==
    LET known == user_id # None /\ user_id \in DOMAIN st.users
        user == IF known THEN user_id ELSE Len(st.users) + 1
        st1 == IF known THEN st ELSE [st EXCEPT !.users = Append(@, r)]
    IN IF AlreadyQueued(st1, user)
       THEN [st |-> st, ok |-> TRUE, id |-> user, raised |-> FALSE,
             advance |-> FALSE]
       ELSE LET max_order == MaxOrderOr0(QueueOf(st1.queue_items, r))
                queue_item == [resource_id |-> r, user_id |-> user,
                               order |-> NextOrder(max_order)]
                st2 == [st1 EXCEPT !.queue_items = @ \cup {queue_item}]
            IN [st |-> broadcast_update(st2, r), ok |-> TRUE, id |-> user,
                raised |-> FALSE,
                advance |-> ~HasActiveOffer(st2.resources[r])]

\* release_resource up to the broadcast of line 102.
release_resource_committed(st, r, user_id) ==
    IF NotHolder(st, r, user_id)
    THEN [st |-> st, ok |-> FALSE, id |-> None, raised |-> FALSE,
          advance |-> FALSE]
    ELSE LET st1 == [st EXCEPT !.resources[r].current_holder_id = None]
         IN [st |-> broadcast_update(st1, r), ok |-> TRUE, id |-> None,
             raised |-> FALSE, advance |-> TRUE]

\* _handle_timeout after the sleep up to the broadcast of line 176.
handle_timeout_committed(st, t) ==
    LET r == t.resource_id
        st0 == [st EXCEPT !.tasks = @ \ {t}]
    IN IF r \notin DOMAIN st.resources
          \/ st.resources[r].active_offer_expires_at = NoTime
       THEN [st |-> st0, advance |-> FALSE]
       ELSE LET items == OrderBy(QueueOf(st.queue_items, r))
                st1 == IF items # <<>>
                       THEN LET timed_out_item == items[1]
                                max_order == items[Len(items)].order
                            IN [st0 EXCEPT
                                  !.queue_items =
                                      RequeueAtEnd(@, timed_out_item, max_order),
                                  !.resources[r].active_offer_expires_at = NoTime]
                       ELSE st0
            IN [st |-> broadcast_update(st1, r), advance |-> TRUE]

\* The coroutines left when the task registered for r is cancelled: a task
\* cancelled at an await ends there.
Surviving(S, r) ==
    {p \in S : ~(p.resource_id = r /\ p.self # None
                 /\ p.self = offer_tasks[r])}

Suspend(S) ==
    /\ Cardinality(S) <= MaxPending
    /\ pending' = S

JoinCommitted(r, user_id) ==
    /\ r \in DOMAIN resources
    /\ LET out == join_queue_committed(State, r, user_id)
       IN /\ WithinBounds(out.st)
          /\ Store(out.st)
          /\ Remember(out.st, NoneExpired)
          /\ last' = Result("join", r, user_id, out)
          /\ Suspend(IF out.advance
                     THEN pending \cup {Coroutine(r, None, out.id, "called")}
                     ELSE pending)
    /\ UNCHANGED now

ReleaseCommitted(r, user_id) ==
    /\ r \in DOMAIN resources
    /\ LET out == release_resource_committed(State, r, user_id)
       IN /\ Call("release", r, user_id, out)
          /\ Suspend(IF out.advance
                     THEN pending \cup {Coroutine(r, None, user_id, "called")}
                     ELSE pending)
    /\ UNCHANGED now

AcceptBetween(r, user_id) ==
    /\ r \in DOMAIN resources
    /\ LET out == accept_offer(State, r, user_id)
       IN /\ Call("accept", r, user_id, out)
          /\ pending' = IF out.ok THEN Surviving(pending, r) ELSE pending
    /\ UNCHANGED now

TimeoutCommitted(t) ==
    /\ t \in tasks
    /\ t.wake <= now
    /\ LET out == handle_timeout_committed(State, t)
       IN /\ Store(out.st)
          /\ Remember(out.st, TimedOut(t))
          /\ last' = [op |-> "timeout", resource_id |-> t.resource_id,
                      user_id |-> None, ok |-> TRUE, id |-> t.id,
                      pub |-> out.st.pub, raised |-> FALSE]
          /\ Suspend(IF out.advance
                     THEN pending \cup
                          {Coroutine(t.resource_id, t.id, None, "called")}
                     ELSE pending)
    /\ UNCHANGED now

\* resource = await db.get(Resource, resource_id), and the return of a
\* held resource.
AdvanceRead(p) ==
    /\ p \in pending
    /\ p.stage = "called"
    /\ pending' = IF AlreadyHeld(resources[p.resource_id])
                  THEN pending \ {p}
                  ELSE (pending \ {p}) \cup {[p EXCEPT !.stage = "read"]}
    /\ last' = [op |-> "read", resource_id |-> p.resource_id,
                user_id |-> p.by, ok |-> TRUE, id |-> None, pub |-> <<>>,
                raised |-> FALSE]
    /\ UNCHANGED <<resources, users, queue_items, offer_tasks, tasks, now,
                   arrival, noShow, assigned>>

\* The rest of _process_queue. The commit writes the one column the
\* coroutine changed, the deadline, on the row as it is now. ok tells whether
\* an offer was made.
AdvanceCommit(p) ==
    /\ p \in pending
    /\ p.stage = "read"
    /\ LET r == p.resource_id
           st == OfferNext(State, r, p.self)
           offered == QueueOf(queue_items, r) # {}
       IN /\ Store(st)
          /\ Remember(st, NoneExpired)
          /\ last' = [op |-> "advance", resource_id |-> r, user_id |-> p.by,
                      ok |-> offered, id |-> st.offer_tasks[r],
                      pub |-> st.pub, raised |-> FALSE]
          /\ pending' = IF offered THEN Surviving(pending \ {p}, r)
                        ELSE pending \ {p}
    /\ UNCHANGED now

\* Claimants that exist release (the release of a resource nobody holds by
\* a caller without identity is left to the atomic specification).
NextInterleaved ==
    \/ \E d \in 1..MaxTimeout : CreateResource("r1", d)
    \/ \E r \in Resources, u \in 0..MaxUsers : JoinCommitted(r, u)
    \/ \E r \in Resources, u \in 1..MaxUsers : ReleaseCommitted(r, u)
    \/ \E r \in Resources, u \in 0..MaxUsers : AcceptBetween(r, u)
    \/ \E t \in tasks : TimeoutCommitted(t)
    \/ \E p \in pending : AdvanceRead(p)
    \/ \E p \in pending : AdvanceCommit(p)
    \/ Tick

SpecInterleaved == Init /\ [][NextInterleaved]_vars

\* ----------------------------------------------------------- properties
Holder(r) == resources[r].current_holder_id
Deadline(r) == resources[r].active_offer_expires_at
Timeout(r) == resources[r].timeout_seconds
TasksOf(r) == {t \in tasks : t.resource_id = r}
Failed == [st |-> State, ok |-> FALSE, id |-> None,
             raised |-> FALSE]

\* C1: a resource never has both a holder and an offer deadline.
C1_MutualExclusion ==
    \A r \in DOMAIN resources : ~(Holder(r) # None /\ Deadline(r) # NoTime)

\* A claimant has just joined the queue of a held resource.
C1_Witness ==
    /\ last.op = "join"
    /\ last.resource_id \in DOMAIN resources
    /\ Holder(last.resource_id) # None
    /\ last.id \in Queued(queue_items, last.resource_id)

\* C2: while a resource is held no accept_offer succeeds on it, and its
\* holder changes only to None, by a successful release_resource of the holder.
C2_ExclusiveHolding ==
    [][\A r \in DOMAIN resources :
         Holder(r) # None =>
           /\ \A u \in 0..MaxUsers : ~accept_offer(State, r, u).ok
           /\ resources'[r].current_holder_id # Holder(r) =>
                /\ resources'[r].current_holder_id = None
                /\ last'.op = "release"
                /\ last'.resource_id = r
                /\ last'.user_id = Holder(r)
                /\ last'.ok]_vars

\* The holder has released while another claimant waited, who is now offered.
C2_Witness ==
    /\ last.op = "release"
    /\ last.user_id # None
    /\ Deadline(last.resource_id) # NoTime
    /\ Holder(last.resource_id) = None

\* s without the members of S.
Without(s, S) == LET Keep(x) == x \notin S IN SelectSeq(s, Keep)

Before(s, a, b) == \E i, j \in 1..Len(s) : i < j /\ s[i] = a /\ s[j] = b

\* C3: the queued claimants whose offer has not timed out stand in their join
\* order, and the claimant offered a resource joined before every queued
\* claimant whose offer has not timed out.
C3_FifoOffers ==
    \A r \in DOMAIN resources :
       /\ Without(QueueUsers(queue_items, r), noShow[r])
            = Without(arrival[r], noShow[r])
       /\ (Deadline(r) # NoTime /\ QueueOf(queue_items, r) # {}) =>
            \A q \in Queued(queue_items, r) \ noShow[r] :
                ~Before(arrival[r], q, QueueUsers(queue_items, r)[1])

\* After the first offeree rejected or released, the offer stands with the
\* next of three claimants, none of whom timed out.
C3_Witness ==
    /\ last.op \in {"release", "reject"}
    /\ Deadline(last.resource_id) # NoTime
    /\ Len(arrival[last.resource_id]) >= 2
    /\ noShow[last.resource_id] = {}

\* The offer made to the head of r after the call: a fresh deadline and the
\* one registered task that sleeps until it.
FreshOffer(r) ==
    /\ resources'[r].active_offer_expires_at = now + Timeout(r)
    /\ {t \in tasks' : t.resource_id = r}
         = {[id |-> offer_tasks'[r], resource_id |-> r,
             wake |-> now + Timeout(r)]}

\* C4: from an offered queue [A, B, ...] a reject_offer by A deletes A's item
\* and the expiry of the offer moves A behind all the others; either way the
\* deadline is cleared (the snapshot emitted then shows none) and B is
\* offered next.
C4_RejectVersusTimeout ==
    [][\A r \in DOMAIN resources :
         LET q == QueueUsers(queue_items, r)
             after == QueueUsers(queue_items', r)
         IN (Deadline(r) # NoTime /\ Len(q) >= 2 /\ last'.resource_id = r
             /\ last'.op \in {"reject", "timeout"}) =>
              /\ last'.op = "reject" => after = Tail(q)
              /\ last'.op = "timeout" => after = Tail(q) \o <<q[1]>>
              /\ last'.pub # <<>>
              /\ last'.pub[1].offerExpiresAt = NoTime
              /\ last'.pub[1].queue = after
              /\ after[1] = q[2]
              /\ FreshOffer(r)]_vars

\* An offer has just timed out with a second claimant waiting.
C4_Witness ==
    /\ last.op = "timeout"
    /\ last.pub # <<>>
    /\ Len(QueueUsers(queue_items, last.resource_id)) >= 2
    /\ noShow[last.resource_id] # {}

\* C5: join_queue by a claimant queued for the resource returns the claimant's
\* id and changes nothing, and no claimant has two items in one queue.
C5_IdempotentJoin ==
    \A r \in DOMAIN resources :
       /\ \A u \in Queued(queue_items, r) :
             join_queue(State, r, u) =
                [st |-> State, ok |-> TRUE, id |-> u, raised |-> FALSE]
       /\ \A u \in 1..MaxUsers :
             Cardinality({i \in QueueOf(queue_items, r) : i.user_id = u}) <= 1

\* A queued claimant has just joined again: the call returned before any
\* broadcast.
C5_Witness ==
    /\ last.op = "join"
    /\ last.pub = <<>>
    /\ last.id = last.user_id
    /\ last.id \in Queued(queue_items, last.resource_id)

\* C6: a join_queue on an offered resource leaves the deadline, the sleeping
\* tasks, the registry and the head as they were, and the queue either as it
\* was or with the joiner appended.
C6_JoinKeepsOffer ==
    [][\A r \in DOMAIN resources :
         LET q == QueueUsers(queue_items, r)
             after == QueueUsers(queue_items', r)
         IN (Deadline(r) # NoTime /\ q # <<>> /\ last'.op = "join"
             /\ last'.resource_id = r) =>
              /\ resources'[r].active_offer_expires_at = Deadline(r)
              /\ tasks' = tasks
              /\ offer_tasks' = offer_tasks
              /\ after[1] = q[1]
              /\ after \in {q, Append(q, last'.id)}]_vars

\* A new claimant has just joined behind a standing offer: one broadcast, no
\* second one from _process_queue.
C6_Witness ==
    /\ last.op = "join"
    /\ Len(last.pub) = 1
    /\ Deadline(last.resource_id) # NoTime
    /\ LET q == QueueUsers(queue_items, last.resource_id)
       IN Len(q) >= 2 /\ q[Len(q)] = last.id

\* C7: after a successful accept_offer the caller holds the resource, has no
\* queue item for it, the deadline is None and no task sleeps for it.
C7_AcceptEffect ==
    last.op = "accept" =>
       LET r == last.resource_id
       IN /\ Holder(r) = last.user_id
          /\ last.user_id \notin Queued(queue_items, r)
          /\ Deadline(r) = NoTime
          /\ TasksOf(r) = {}

\* The offeree has just accepted while another claimant waits.
C7_Witness ==
    /\ last.op = "accept"
    /\ QueueOf(queue_items, last.resource_id) # {}

\* C8: accept_offer returns False and changes nothing when there is no
\* deadline, when the caller is not the head, or when the deadline has passed.
C8_AcceptFailsClosed ==
    \A r \in DOMAIN resources, u \in 0..MaxUsers :
       (\/ Deadline(r) = NoTime
        \/ NotFirst(OrderBy(QueueOf(queue_items, r)), u)
        \/ Deadline(r) < now)
       => accept_offer(State, r, u) = Failed

\* C9: release_resource by anyone but the holder, a request without a user id
\* included, returns False and changes nothing.
C9_ReleaseByNonHolder ==
    \A r \in DOMAIN resources, u \in 0..MaxUsers :
       (Holder(r) = None \/ u # Holder(r))
       => release_resource(State, r, u) = Failed

\* C10: after the holder's release_resource the holder is None; with claimants
\* queued the head is offered until now + timeout_seconds and one task sleeps
\* until then, and with none queued there is no deadline and no task.
C10_ReleaseOffersNext ==
    (last.op = "release" /\ last.user_id # None) =>
       LET r == last.resource_id
           q == QueueUsers(queue_items, r)
       IN /\ Holder(r) = None
          /\ last.pub[1].holder = None
          /\ q # <<>> =>
               /\ Deadline(r) = now + Timeout(r)
               /\ TasksOf(r) = {[id |-> offer_tasks[r], resource_id |-> r,
                                 wake |-> now + Timeout(r)]}
               /\ Len(last.pub) = 2
               /\ last.pub[1].offerExpiresAt = NoTime
               /\ last.pub[2].offerExpiresAt = Deadline(r)
               /\ last.pub[2].queue = q
          /\ q = <<>> => Deadline(r) = NoTime /\ TasksOf(r) = {}

\* The holder has just released with a claimant waiting.
C10_Witness ==
    /\ last.op = "release"
    /\ last.user_id # None
    /\ QueueOf(queue_items, last.resource_id) # {}

\* C11: when the offeree leaves, its item is deleted and its offer cancelled
\* (the snapshot emitted then shows no deadline, the task that slept for it is
\* gone); a remaining head gets a fresh offer, and with nobody left the
\* resource has no deadline and no task.
C11_LeaveWhileOffered ==
    [][\A r \in DOMAIN resources :
         LET q == QueueUsers(queue_items, r)
             after == QueueUsers(queue_items', r)
         IN (Deadline(r) # NoTime /\ q # <<>> /\ last'.op = "leave"
             /\ last'.resource_id = r /\ last'.user_id = q[1]) =>
              /\ after = Tail(q)
              /\ last'.pub # <<>>
              /\ last'.pub[1].offerExpiresAt = NoTime
              /\ last'.pub[1].queue = after
              /\ TasksOf(r) \cap tasks' = {}
              /\ after # <<>> => FreshOffer(r)
              /\ after = <<>> =>
                   /\ resources'[r].active_offer_expires_at = NoTime
                   /\ {t \in tasks' : t.resource_id = r} = {}]_vars

\* The offeree has just left and the claimant behind it is offered.
C11_Witness ==
    /\ last.op = "leave"
    /\ Len(last.pub) = 2
    /\ last.user_id \notin Queued(queue_items, last.resource_id)
    /\ Deadline(last.resource_id) # NoTime

\* C12: a new process leaves no offer whose deadline has passed without a
\* task that expires it.
C12_RecoveryExpiresLapsed ==
    last.op = "restart" =>
       \A r \in DOMAIN resources :
          (Deadline(r) # NoTime /\ Deadline(r) < now) => TasksOf(r) # {}

\* C13: at most one task sleeps for a resource.
C13_OneTimer ==
    \A r \in Resources : Cardinality(TasksOf(r)) <= 1

\* An expiring task has armed its successor: one task sleeps for the resource.
C13_Witness ==
    /\ last.op = "timeout"
    /\ Cardinality(TasksOf(last.resource_id)) = 1

\* C14: every sleeping task is the registered one and sleeps until the
\* deadline of the present offer of its resource, so none is left over from
\* an offer that ended; and the task that wakes moves an item or clears a
\* deadline only of the offer it was armed for.
C14_NoSupersededTimer ==
    [][/\ \A t \in tasks :
            /\ t.resource_id \in DOMAIN resources
            /\ Deadline(t.resource_id) = t.wake
            /\ offer_tasks[t.resource_id] = t.id
       /\ last'.op = "timeout" =>
            \A t \in tasks \ tasks' :
               \/ t.wake = Deadline(t.resource_id)
               \/ /\ queue_items' = queue_items
                  /\ resources' = resources]_vars

\* An offer ended by accept, reject or leave is followed by a new one, and
\* the only task asleep is the one armed for the new offer.
C14_Witness ==
    /\ last.op \in {"release", "reject", "leave"}
    /\ Deadline(last.resource_id) # NoTime
    /\ now > 0
    /\ TasksOf(last.resource_id) # {}

\* C19: the last snapshot an operation published shows the stored holder,
\* queue order and deadline of its resource, an offer made by the advance at
\* its end included.
C19_OfferPublished ==
    last.pub # <<>> =>
       last.pub[Len(last.pub)] = get_resource_state(State, last.resource_id)

\* C20: the deadline of a resource is set exactly when it has no holder and
\* its queue is not empty.
C20_WorkConserving ==
    \A r \in DOMAIN resources :
       (Deadline(r) # NoTime) <=>
          (Holder(r) = None /\ QueueOf(queue_items, r) # {})

\* A holder released with claimants waiting after an earlier no-show, and the
\* head is offered.
C20_Witness ==
    /\ last.op = "release"
    /\ last.user_id # None
    /\ noShow[last.resource_id] # {}
    /\ Holder(last.resource_id) = None
    /\ Deadline(last.resource_id) # NoTime
    /\ QueueOf(queue_items, last.resource_id) # {}

\* The items a step adds to the table: a joined one, or a requeued one under
\* its new key.
NewItems == queue_items' \ queue_items

\* C16 as stated: a key given to an item is greater than every key given
\* before for its resource, the keys of deleted items included.
C16_KeysNeverReused ==
    [][\A i \in NewItems : i.order > assigned[i.resource_id]]_vars

\* C16 amended: a key given to an item is greater than the key of every item
\* then in the queue of its resource.
C16_KeysAboveQueued ==
    [][\A i \in NewItems :
          \A j \in QueueOf(queue_items, i.resource_id) : i.order > j.order]_vars

\* A claimant has joined behind another and got a key that an item since
\* deleted had.
C16_Witness ==
    /\ last.op = "join"
    /\ \E i \in queue_items :
          /\ i.user_id = last.id
          /\ i.order > 1
          /\ i.order < assigned[i.resource_id]
          /\ \E j \in queue_items : j.order < i.order

\* C17: a join by a known claimant with no item on the resource puts the
\* claimant at the tail of its queue, whatever the claimant has on another
\* resource, and leaves the rows, items and tasks of every other resource as
\* they were.
C17_JoinIndependent ==
    [][\A r \in DOMAIN resources :
         (/\ last'.op = "join"
          /\ last'.resource_id = r
          /\ last'.user_id \in DOMAIN users
          /\ last'.user_id \notin Queued(queue_items, r)) =>
            /\ QueueUsers(queue_items', r) =
                  Append(QueueUsers(queue_items, r), last'.user_id)
            /\ \A o \in DOMAIN resources \ {r} :
                  /\ resources'[o] = resources[o]
                  /\ QueueOf(queue_items', o) = QueueOf(queue_items, o)
                  /\ offer_tasks'[o] = offer_tasks[o]]_vars

\* C18: a call that names a resource with no row returns a failure result,
\* raises nothing and changes no row, no item and no task. (A call that
\* returns False is a step that changes nothing, so every other step of such
\* a call breaks this.)
C18_UnknownFailsCleanly ==
    [][\A r \in Resources \ DOMAIN resources :
         (/\ last' # last
          /\ last'.resource_id = r
          /\ last'.op \in {"join", "release", "accept", "reject", "leave"}) =>
            /\ ~last'.raised
            /\ ~last'.ok
            /\ UNCHANGED <<resources, users, queue_items, offer_tasks,
                           tasks>>]_vars

\* C15: a _process_queue that commits a deadline does so on a resource that
\* at that moment has no holder and no deadline.
C15_AdvanceSerialised ==
    [][\A r \in DOMAIN resources :
         (/\ <<last, pending>>' # <<last, pending>>
          /\ last'.op = "advance"
          /\ last'.ok
          /\ last'.resource_id = r) =>
            /\ Holder(r) = None
            /\ Deadline(r) = NoTime]_vars

====
